---- MODULE Spec2Model ----
(***************************************************************************)
(* QueriesService of altair-api (queries.service.ts): query items owned    *)
(* through collection -> workspace -> owner, shared with the workspace's   *)
(* team, under a per-plan document quota and a per-plan bound on the       *)
(* revision history of each item.                                          *)
(*                                                                         *)
(* Spec runs the handlers one call at a time: every action is one whole    *)
(* handler call, from its first await to its return or throw. SpecRace and *)
(* SpecBurst run create and update await by await, the steps of several    *)
(* requests interleaved.                                                   *)
(***************************************************************************)
EXTENDS Integers, Sequences, FiniteSets, TLC

\* ------------------------------------------------------------------ bounds
\* query items ever created in one behaviour (ids are never reused)
MaxItems == 2
\* revisions ever recorded in one behaviour of Spec
MaxClock == 2
\* query items ever created in one behaviour of SpecCreate
MaxItemsCreate == 3
\* revisions ever recorded in one behaviour of SpecSolo
MaxClockSolo == 4
\* revisions ever recorded in one behaviour of SpecDefaults
MaxClockDefaults == 11
\* handler calls that can be in flight at once in SpecRace and SpecBurst
MaxBurst == 2
\* query items ever created in one behaviour of SpecRace
MaxItemsRace == 3
\* revisions ever recorded in one behaviour of SpecBurst
MaxClockBurst == 5

\* ------------------------------------------------------- program constants
DEFAULT_QUERY_REVISION_LIMIT == 10

\* ------------------------------------------------------------ the tenancy
\* Users, workspaces, teams and collections are rows this service only reads.
Users == {"u1", "u2"}
Collections == {"c1", "c2"}

\* QueryCollection.workspace
workspace(collectionId) ==
    CASE collectionId = "c1" -> "w1"
      [] collectionId = "c2" -> "w2"
      [] OTHER -> "none"

\* Workspace.ownerId
ownerId(ws) ==
    CASE ws = "w1" -> "u1"
      [] ws = "w2" -> "u2"
      [] OTHER -> "nobody"

\* Workspace.team.TeamMemberships: the user ids of the memberships of the
\* workspace's team; w2 has no team, so u1 is an outsider of w2.
TeamMemberships(ws) == IF ws = "w1" THEN {"u2"} ELSE {}

\* ------------------------------------------------------------------ values
\* "" stands for a string that is undefined or empty: create rejects both,
\* and an update dto here either sets a field or leaves it undefined.
\* content is a document with a query and a version; NoContent stands for an
\* undefined content.
NoContent == [query |-> "", version |-> 0]
Content1 == [query |-> "q1", version |-> 1]
Content2 == [query |-> "q2", version |-> 1]
ContentNoQuery == [query |-> "", version |-> 1]
ContentV2 == [query |-> "q1", version |-> 2]

CreateQueryDto ==
    [collectionId : Collections \cup {""},
     name : {"a", ""},
     content : {Content1, NoContent, ContentNoQuery, ContentV2}]

\* every field of an UpdateQueryDto is optional; an undefined field ("" or
\* NoContent) leaves the column as it is
UpdateQueryDto ==
    [collectionId : Collections \cup {""},
     name : {"b", ""},
     content : {Content2, NoContent}]

NoDto == [collectionId |-> "", name |-> "", content |-> NoContent]

\* plan configs: a field is a set holding its value, empty when it is unset;
\* config is FALSE when the provider has no plan config for the user
NoPlan == [config |-> FALSE, maxQueryCount |-> {}, queryRevisionLimit |-> {}]
PlanOf(m, r) == [config |-> TRUE, maxQueryCount |-> m, queryRevisionLimit |-> r]

PlansMain == [u \in Users |->
    CASE u = "u1" -> PlanOf({2}, {1})
      [] u = "u2" -> PlanOf({1}, {2})
      [] OTHER -> NoPlan]

\* u1 has a plan that leaves queryRevisionLimit unset; u2 has no plan config,
\* or one that sets neither field
PlansDefaults ==
    {[u \in Users |-> IF u = "u1" THEN PlanOf({1}, {}) ELSE p] :
        p \in {NoPlan, PlanOf({}, {})}}

\* u1 with each revision limit from 1 to 3
PlansSolo ==
    {[u \in Users |-> IF u = "u1" THEN PlanOf({2}, {l}) ELSE PlanOf({1}, {1})] :
        l \in 1..3}

\* ------------------------------------------------------------------- state
VARIABLES
    plan,               \* userService.getPlanConfig: user -> plan config
    queryItem,          \* prisma.queryItem: id -> row
    queryItemRevision,  \* prisma.queryItemRevision: set of rows
    nextItemId,         \* the id the next created query item gets
    clock,              \* the id and createdAt the next revision gets
    recorded,           \* item id -> (id, creator) of every revision ever created for it, in order
    emitted,            \* ids of the QUERY_UPDATE events the last step emitted
    lastCall,           \* the handler call the last step completed, its arguments and its outcome
    calls               \* request -> the handler call it has in flight, its position and its locals

vars == <<plan, queryItem, queryItemRevision, nextItemId, clock, recorded,
          emitted, lastCall, calls>>

Call(op, userId, id, dto, result, count, ret) ==
    [op |-> op, userId |-> userId, id |-> id, dto |-> dto, result |-> result,
     count |-> count, ret |-> ret]

NoCall == Call("none", "", 0, NoDto, "ok", 0, <<>>)

\* the requests the server handles at once; a request runs one handler call,
\* which is suspended at each await
Procs == 1..MaxBurst

\* a request that has not called a handler; the locals are those of create,
\* update and addQueryRevision
Idle ==
    [pc |-> "idle", op |-> "none", userId |-> "", id |-> 0, dto |-> NoDto,
     queryCount |-> 0, count |-> 0, query |-> <<>>, res |-> 0, revisions |-> 0,
     oldestRevision |-> 0, result |-> ""]

\* ------------------------------------------------------------ pure helpers
Nullish(field) == field = {}
ValueOf(field) == CHOOSE v \in field : TRUE

getPlanConfig(userId) == plan[userId]

\* userPlanConfig?.maxQueryCount ?? 0
userPlanMaxQueryCount(userId) ==
    LET userPlanConfig == getPlanConfig(userId)
    IN IF ~userPlanConfig.config \/ Nullish(userPlanConfig.maxQueryCount)
       THEN 0
       ELSE ValueOf(userPlanConfig.maxQueryCount)

\* mutant: an unset limit in a plan config that exists resolves to 0
userPlanQueryRevisionLimit_unsetZero(userId) ==
    LET userPlanConfig == getPlanConfig(userId)
    IN IF ~userPlanConfig.config
       THEN DEFAULT_QUERY_REVISION_LIMIT
       ELSE IF Nullish(userPlanConfig.queryRevisionLimit)
       THEN 0
       ELSE ValueOf(userPlanConfig.queryRevisionLimit)

\* userPlanConfig?.queryRevisionLimit ?? DEFAULT_QUERY_REVISION_LIMIT
userPlanQueryRevisionLimit(userId) ==
    LET userPlanConfig == getPlanConfig(userId)
    IN IF ~userPlanConfig.config \/ Nullish(userPlanConfig.queryRevisionLimit)
       THEN DEFAULT_QUERY_REVISION_LIMIT
       ELSE ValueOf(userPlanConfig.queryRevisionLimit)

\* mutant: team members pass the owner filter
ownerWhere_member(userId, row) ==
    \/ ownerId(workspace(row.collectionId)) = userId
    \/ userId \in TeamMemberships(workspace(row.collectionId))

\* where user is the owner of the query
ownerWhere(userId, row) == ownerId(workspace(row.collectionId)) = userId

\* where user has access to the query as the owner or team member
ownerOrMemberWhere(userId, row) ==
    \/ ownerId(workspace(row.collectionId)) = userId
    \/ userId \in TeamMemberships(workspace(row.collectionId))

\* mutant: the row is looked up by id alone
findOneIn_idOnly(items, userId, id) == {i \in DOMAIN items : i = id}

\* the rows of `items` that findFirst({id, ...ownerOrMemberWhere}) matches
findOneIn(items, userId, id) ==
    {i \in DOMAIN items : i = id /\ ownerOrMemberWhere(userId, items[i])}

findOneWhere(userId, id) == findOneIn(queryItem, userId, id)

\* queryItemRevision.findMany({where: {queryItem: {id, ...ownerOrMemberWhere}}})
listRevisionsWhere(userId, queryId) ==
    {r \in queryItemRevision :
        /\ r.queryItemId = queryId
        /\ r.queryItemId \in DOMAIN queryItem
        /\ ownerOrMemberWhere(userId, queryItem[r.queryItemId])}

\* findMany has no orderBy: the store may return the rows in any order
RECURSIVE Orderings(_)
Orderings(S) ==
    IF S = {} THEN {<<>>}
    ELSE UNION {{<<x>> \o s : s \in Orderings(S \ {x})} : x \in S}

revisionsOf(revs, queryId) == {r \in revs : r.queryItemId = queryId}

\* mutant: the order is descending, so the newest revision is taken
oldestRevision_desc(revs, queryId) ==
    CHOOSE r \in revisionsOf(revs, queryId) :
        \A o \in revisionsOf(revs, queryId) : r.createdAt >= o.createdAt

\* findFirst({where: {queryItemId}, orderBy: {createdAt: 'asc'}})
oldestRevision(revs, queryId) ==
    CHOOSE r \in revisionsOf(revs, queryId) :
        \A o \in revisionsOf(revs, queryId) : r.createdAt <= o.createdAt

\* mutant: the eviction test off by one
limitExceeded_offByOne(revisions, limit) == revisions > limit + 1

\* revisions > userPlanQueryRevisionLimit
limitExceeded(revisions, limit) == revisions > limit

\* mutant: the eviction trims the item's revisions down to the limit
addQueryRevision_trim(userId, queryId, items, revs, clk) ==
    LET limit == userPlanQueryRevisionLimit(userId)
        found == findOneIn(items, userId, queryId)
    IN IF found = {}
       THEN [threw |-> TRUE, revisions |-> revs, clock |-> clk, res |-> <<>>]
       ELSE LET query == items[queryId]
                res == [id |-> clk,
                        queryItemId |-> queryId,
                        createdById |-> userId,
                        name |-> query.name,
                        content |-> query.content,
                        collectionId |-> query.collectionId,
                        createdAt |-> clk]
                inserted == revs \cup {res}
                ofItem == revisionsOf(inserted, queryId)
                kept == {r \in ofItem :
                            Cardinality({o \in ofItem :
                                            o.createdAt > r.createdAt}) < limit}
            IN [threw |-> FALSE,
                revisions |-> (inserted \ ofItem) \cup kept,
                clock |-> clk + 1,
                res |-> <<[id |-> res.id, createdById |-> userId]>>]

\* addQueryRevision on the items `items` (the state after the caller's
\* mutation), the revisions `revs` and the clock `clk`: threw when findOne
\* throws NotFound, else the revisions after the insert and the eviction.
addQueryRevision(userId, queryId, items, revs, clk) ==
    LET limit == userPlanQueryRevisionLimit(userId)
        found == findOneIn(items, userId, queryId)
    IN IF found = {}
       THEN [threw |-> TRUE, revisions |-> revs, clock |-> clk, res |-> <<>>]
       ELSE LET query == items[queryId]
                res == [id |-> clk,
                        queryItemId |-> queryId,
                        createdById |-> userId,
                        name |-> query.name,
                        content |-> query.content,
                        collectionId |-> query.collectionId,
                        createdAt |-> clk]
                inserted == revs \cup {res}
                revisions == Cardinality(revisionsOf(inserted, queryId))
            IN [threw |-> FALSE,
                revisions |->
                    IF limitExceeded(revisions, limit)
                    THEN inserted \ {oldestRevision(inserted, queryId)}
                    ELSE inserted,
                clock |-> clk + 1,
                res |-> <<[id |-> res.id, createdById |-> userId]>>]

\* the log of recordings after a call whose addQueryRevision returned `rev`
Recorded(queryId, rev) ==
    IF queryId \in DOMAIN recorded
    THEN [recorded EXCEPT ![queryId] = @ \o rev.res]
    ELSE IF rev.res = <<>> THEN recorded ELSE recorded @@ (queryId :> rev.res)

\* ---------------------------------------------------------------- handlers
\* mutant: the version of the content is not checked
invalidDto_anyVersion(createQueryDto) ==
    \/ createQueryDto.collectionId = ""
    \/ createQueryDto.name = ""
    \/ createQueryDto.content = NoContent
    \/ createQueryDto.content.query = ""

\* the dto check of create
invalidDto(createQueryDto) ==
    \/ createQueryDto.collectionId = ""
    \/ createQueryDto.name = ""
    \/ createQueryDto.content = NoContent
    \/ createQueryDto.content.query = ""
    \/ createQueryDto.content.version # 1

queryCount(userId) ==
    Cardinality({i \in DOMAIN queryItem : ownerWhere(userId, queryItem[i])})

\* mutant: the quota test lets one more query item in
quotaReached_strict(userId) == queryCount(userId) > userPlanMaxQueryCount(userId)

\* queryCount >= userPlanMaxQueryCount
quotaReached(userId) == queryCount(userId) >= userPlanMaxQueryCount(userId)

\* mutant: the collection is looked up by id alone
validCollection_anyOwner(userId, collectionId) ==
    {c \in Collections : c = collectionId}

\* queryCollection.findMany({where: {id, workspace: {ownerId: userId}}})
validCollection(userId, collectionId) ==
    {c \in Collections : c = collectionId /\ ownerId(workspace(c)) = userId}

Throws(op, userId, id, dto, error) ==
    /\ lastCall' = Call(op, userId, id, dto, error, 0, <<>>)
    /\ emitted' = <<>>
    /\ UNCHANGED <<plan, queryItem, queryItemRevision, nextItemId, clock, recorded,
                   calls>>

\* mutant: the query item is inserted before the collection's owner is checked
create_insertsFirst(userId, createQueryDto) ==
    IF quotaReached(userId)
    THEN Throws("create", userId, 0, createQueryDto, "ERR_MAX_QUERY_COUNT")
    ELSE IF invalidDto(createQueryDto)
    THEN Throws("create", userId, 0, createQueryDto, "BadRequestException")
    ELSE
        LET id == nextItemId
            res == [collectionId |-> createQueryDto.collectionId,
                    name |-> createQueryDto.name,
                    queryVersion |-> createQueryDto.content.version,
                    content |-> createQueryDto.content]
            items == queryItem @@ (id :> res)
            rev == addQueryRevision(userId, id, items, queryItemRevision, clock)
        IN IF validCollection(userId, createQueryDto.collectionId) = {}
           THEN /\ queryItem' = items
                /\ nextItemId' = nextItemId + 1
                /\ emitted' = <<>>
                /\ lastCall' = Call("create", userId, 0, createQueryDto,
                                    "ERR_PERM_DENIED", 0, <<>>)
                /\ UNCHANGED <<plan, queryItemRevision, clock, recorded, calls>>
           ELSE /\ queryItem' = items
                /\ nextItemId' = nextItemId + 1
                /\ queryItemRevision' = rev.revisions
                /\ clock' = rev.clock
                /\ recorded' = Recorded(id, rev)
                /\ emitted' = IF rev.threw THEN <<>> ELSE <<id>>
                /\ lastCall' = Call("create", userId, id, createQueryDto,
                                    IF rev.threw THEN "NotFoundException" ELSE "ok",
                                    0, <<>>)
                /\ UNCHANGED <<plan, calls>>

create(userId, createQueryDto) ==
    IF quotaReached(userId)
    THEN Throws("create", userId, 0, createQueryDto, "ERR_MAX_QUERY_COUNT")
    ELSE IF invalidDto(createQueryDto)
    THEN Throws("create", userId, 0, createQueryDto, "BadRequestException")
    ELSE IF validCollection(userId, createQueryDto.collectionId) = {}
    THEN Throws("create", userId, 0, createQueryDto, "ERR_PERM_DENIED")
    ELSE
        LET id == nextItemId
            res == [collectionId |-> createQueryDto.collectionId,
                    name |-> createQueryDto.name,
                    queryVersion |-> createQueryDto.content.version,
                    content |-> createQueryDto.content]
            items == queryItem @@ (id :> res)
            rev == addQueryRevision(userId, id, items, queryItemRevision, clock)
        IN /\ queryItem' = items
           /\ nextItemId' = nextItemId + 1
           /\ queryItemRevision' = rev.revisions
           /\ clock' = rev.clock
           /\ recorded' = Recorded(id, rev)
           \* a throw of addQueryRevision skips the emit
           /\ emitted' = IF rev.threw THEN <<>> ELSE <<id>>
           /\ lastCall' = Call("create", userId, id, createQueryDto,
                               IF rev.threw THEN "NotFoundException" ELSE "ok",
                               0, <<>>)
           /\ UNCHANGED <<plan, calls>>

findOne(userId, id) ==
    /\ lastCall' = Call("findOne", userId, id, NoDto,
                        IF findOneWhere(userId, id) = {}
                        THEN "NotFoundException" ELSE "ok",
                        0, <<>>)
    /\ emitted' = <<>>
    /\ UNCHANGED <<plan, queryItem, queryItemRevision, nextItemId, clock, recorded,
                   calls>>

\* the row after updateMany's data: undefined fields are left as they are
updateData(row, updateQueryDto) ==
    [row EXCEPT
        !.name = IF updateQueryDto.name = "" THEN @ ELSE updateQueryDto.name,
        !.collectionId = IF updateQueryDto.collectionId = ""
                         THEN @ ELSE updateQueryDto.collectionId,
        !.content = IF updateQueryDto.content = NoContent
                    THEN @ ELSE updateQueryDto.content]

update(userId, id, updateQueryDto) ==
    LET matched == findOneWhere(userId, id)
        items == [i \in DOMAIN queryItem |->
                    IF i \in matched
                    THEN updateData(queryItem[i], updateQueryDto)
                    ELSE queryItem[i]]
        rev == addQueryRevision(userId, id, items, queryItemRevision, clock)
    IN /\ queryItem' = items
       /\ emitted' = IF matched # {} THEN <<id>> ELSE <<>>
       /\ queryItemRevision' = rev.revisions
       /\ clock' = rev.clock
       /\ recorded' = Recorded(id, rev)
       /\ lastCall' = Call("update", userId, id, updateQueryDto,
                           IF rev.threw THEN "NotFoundException" ELSE "ok",
                           Cardinality(matched), <<>>)
       /\ UNCHANGED <<plan, nextItemId, calls>>

\* deleteMany under ownerWhere; the store deletes the revisions of a deleted
\* query item with it (the relation's onDelete: Cascade)
remove(userId, id) ==
    LET matched == {i \in DOMAIN queryItem :
                        i = id /\ ownerWhere(userId, queryItem[i])}
    IN /\ queryItem' = [i \in DOMAIN queryItem \ matched |-> queryItem[i]]
       /\ queryItemRevision' =
            {r \in queryItemRevision : r.queryItemId \notin matched}
       /\ emitted' = IF matched # {} THEN <<id>> ELSE <<>>
       /\ lastCall' = Call("remove", userId, id, NoDto, "ok",
                           Cardinality(matched), <<>>)
       /\ UNCHANGED <<plan, nextItemId, clock, recorded, calls>>

\* mutant: the restore leaves the collection as it is
restoreData_noCollection(row, revision) ==
    [row EXCEPT !.name = revision.name, !.content = revision.content]

\* the row after restoreRevision's data
restoreData(row, revision) ==
    [row EXCEPT !.name = revision.name,
                !.content = revision.content,
                !.collectionId = revision.collectionId]

listRevisions(userId, queryId) ==
    /\ \E ret \in Orderings(listRevisionsWhere(userId, queryId)) :
          lastCall' = Call("listRevisions", userId, queryId, NoDto, "ok", 0, ret)
    /\ emitted' = <<>>
    /\ UNCHANGED <<plan, queryItem, queryItemRevision, nextItemId, clock, recorded,
                   calls>>

\* mutant: the restore drops the revisions recorded after the restored one
restoreRevision_dropsNewer(userId, revisionId) ==
    LET found == {r \in queryItemRevision : r.id = revisionId}
    IN IF found = {}
       THEN Throws("restoreRevision", userId, revisionId, NoDto, "NotFoundException")
       ELSE LET revision == CHOOSE r \in found : TRUE
            IN IF findOneWhere(userId, revision.queryItemId) = {}
               THEN Throws("restoreRevision", userId, revisionId, NoDto,
                           "NotFoundException")
               ELSE /\ queryItem' =
                        [queryItem EXCEPT ![revision.queryItemId] =
                            restoreData(@, revision)]
                    /\ queryItemRevision' =
                        {r \in queryItemRevision :
                            \/ r.queryItemId # revision.queryItemId
                            \/ r.createdAt <= revision.createdAt}
                    /\ emitted' = <<>>
                    /\ lastCall' = Call("restoreRevision", userId, revisionId,
                                        NoDto, "ok", 0, <<>>)
                    /\ UNCHANGED <<plan, nextItemId, clock, recorded, calls>>

restoreRevision(userId, revisionId) ==
    LET found == {r \in queryItemRevision : r.id = revisionId}
    IN IF found = {}
       THEN Throws("restoreRevision", userId, revisionId, NoDto, "NotFoundException")
       ELSE LET revision == CHOOSE r \in found : TRUE
            IN IF findOneWhere(userId, revision.queryItemId) = {}
               THEN Throws("restoreRevision", userId, revisionId, NoDto,
                           "NotFoundException")
               ELSE /\ queryItem' =
                        [queryItem EXCEPT ![revision.queryItemId] =
                            restoreData(@, revision)]
                    /\ emitted' = <<>>
                    /\ lastCall' = Call("restoreRevision", userId, revisionId,
                                        NoDto, "ok", 0, <<>>)
                    /\ UNCHANGED <<plan, queryItemRevision, nextItemId, clock,
                                   recorded, calls>>

\* ------------------------------------------------------- handlers by steps
\* The same handlers with their awaits as suspension points: a step is one
\* store operation and the synchronous code that follows it up to the next
\* one. Reading the plan config and the collections, which no handler
\* changes, is part of the step that follows. No request here calls remove,
\* so the query item of a recording exists.

\* request p goes on with the locals c
Continues(p, c) ==
    /\ calls' = [calls EXCEPT ![p] = c]
    /\ lastCall' = NoCall

\* the call of request p ends, returning or throwing `result`
Ends(p, c, result) ==
    /\ calls' = [calls EXCEPT ![p] = [c EXCEPT !.pc = "done", !.result = result]]
    /\ lastCall' = Call(c.op, c.userId, c.id, c.dto, result, c.count, <<>>)

\* addQueryRevision returns to its caller, which returns; create emits first
Returns(p, c) ==
    /\ Ends(p, c, "ok")
    /\ emitted' = IF c.op = "create" THEN <<c.id>> ELSE <<>>

\* create up to the insert: the count, the quota check, the dto check and the
\* ownership check
create_count(p, userId, createQueryDto) ==
    LET c == [Idle EXCEPT !.op = "create", !.userId = userId,
                          !.dto = createQueryDto,
                          !.queryCount = queryCount(userId)]
    IN /\ calls[p].pc \in {"idle", "done"}
       /\ IF quotaReached(userId)
          THEN Ends(p, c, "ERR_MAX_QUERY_COUNT")
          ELSE IF invalidDto(createQueryDto)
          THEN Ends(p, c, "BadRequestException")
          ELSE IF validCollection(userId, createQueryDto.collectionId) = {}
          THEN Ends(p, c, "ERR_PERM_DENIED")
          ELSE Continues(p, [c EXCEPT !.pc = "queryItem.create"])
       /\ emitted' = <<>>
       /\ UNCHANGED <<plan, queryItem, queryItemRevision, nextItemId, clock,
                      recorded>>

\* prisma.queryItem.create
create_queryItemCreate(p) ==
    LET c == calls[p]
        id == nextItemId
        res == [collectionId |-> c.dto.collectionId,
                name |-> c.dto.name,
                queryVersion |-> c.dto.content.version,
                content |-> c.dto.content]
    IN /\ c.pc = "queryItem.create"
       /\ queryItem' = queryItem @@ (id :> res)
       /\ nextItemId' = nextItemId + 1
       /\ Continues(p, [c EXCEPT !.id = id, !.pc = "findOne"])
       /\ emitted' = <<>>
       /\ UNCHANGED <<plan, queryItemRevision, clock, recorded>>

\* prisma.queryItem.updateMany and the emit
update_updateMany(p, userId, id, updateQueryDto) ==
    LET matched == findOneWhere(userId, id)
        c == [Idle EXCEPT !.op = "update", !.userId = userId, !.id = id,
                          !.dto = updateQueryDto,
                          !.count = Cardinality(matched)]
    IN /\ calls[p].pc \in {"idle", "done"}
       /\ queryItem' = [i \in DOMAIN queryItem |->
                          IF i \in matched
                          THEN updateData(queryItem[i], updateQueryDto)
                          ELSE queryItem[i]]
       /\ emitted' = IF matched # {} THEN <<id>> ELSE <<>>
       /\ Continues(p, [c EXCEPT !.pc = "findOne"])
       /\ UNCHANGED <<plan, queryItemRevision, nextItemId, clock, recorded>>

\* addQueryRevision: this.findOne(userId, queryId)
addQueryRevision_findOne(p) ==
    LET c == calls[p]
    IN /\ c.pc = "findOne"
       /\ IF findOneIn(queryItem, c.userId, c.id) = {}
          THEN Ends(p, c, "NotFoundException")
          ELSE Continues(p, [c EXCEPT !.query = <<queryItem[c.id]>>,
                                      !.pc = "queryItemRevision.create"])
       /\ emitted' = <<>>
       /\ UNCHANGED <<plan, queryItem, queryItemRevision, nextItemId, clock,
                      recorded>>

\* addQueryRevision: prisma.queryItemRevision.create
addQueryRevision_create(p) ==
    LET c == calls[p]
        query == c.query[1]
        res == [id |-> clock,
                queryItemId |-> c.id,
                createdById |-> c.userId,
                name |-> query.name,
                content |-> query.content,
                collectionId |-> query.collectionId,
                createdAt |-> clock]
        log == <<[id |-> res.id, createdById |-> c.userId]>>
    IN /\ c.pc = "queryItemRevision.create"
       /\ queryItemRevision' = queryItemRevision \cup {res}
       /\ clock' = clock + 1
       /\ recorded' = IF c.id \in DOMAIN recorded
                      THEN [recorded EXCEPT ![c.id] = @ \o log]
                      ELSE recorded @@ (c.id :> log)
       /\ Continues(p, [c EXCEPT !.res = res.id,
                                 !.pc = "queryItemRevision.count"])
       /\ emitted' = <<>>
       /\ UNCHANGED <<plan, queryItem, nextItemId>>

\* addQueryRevision: prisma.queryItemRevision.count and the test of the limit
addQueryRevision_count(p) ==
    LET c == calls[p]
        revisions == Cardinality(revisionsOf(queryItemRevision, c.id))
        counted == [c EXCEPT !.revisions = revisions]
    IN /\ c.pc = "queryItemRevision.count"
       /\ IF limitExceeded(revisions, userPlanQueryRevisionLimit(c.userId))
          THEN /\ Continues(p, [counted EXCEPT
                                   !.pc = "queryItemRevision.findFirst"])
               /\ emitted' = <<>>
          ELSE Returns(p, counted)
       /\ UNCHANGED <<plan, queryItem, queryItemRevision, nextItemId, clock,
                      recorded>>

\* addQueryRevision: prisma.queryItemRevision.findFirst, oldest first; with no
\* row left it returns null and oldestRevision.id throws
addQueryRevision_findFirst(p) ==
    LET c == calls[p]
    IN /\ c.pc = "queryItemRevision.findFirst"
       /\ IF revisionsOf(queryItemRevision, c.id) = {}
          THEN Ends(p, c, "TypeError")
          ELSE Continues(p, [c EXCEPT
                  !.oldestRevision = oldestRevision(queryItemRevision, c.id).id,
                  !.pc = "queryItemRevision.delete"])
       /\ emitted' = <<>>
       /\ UNCHANGED <<plan, queryItem, queryItemRevision, nextItemId, clock,
                      recorded>>

\* addQueryRevision: prisma.queryItemRevision.delete, which throws when the
\* record to delete does not exist
addQueryRevision_delete(p) ==
    LET c == calls[p]
        found == {r \in queryItemRevision : r.id = c.oldestRevision}
    IN /\ c.pc = "queryItemRevision.delete"
       /\ IF found = {}
          THEN /\ Ends(p, c, "RecordNotFound")
               /\ emitted' = <<>>
               /\ UNCHANGED queryItemRevision
          ELSE /\ queryItemRevision' = queryItemRevision \ found
               /\ Returns(p, c)
       /\ UNCHANGED <<plan, queryItem, nextItemId, clock, recorded>>

\* ---------------------------------------------------------- specifications
InitStore ==
    /\ queryItem = <<>>
    /\ queryItemRevision = {}
    /\ nextItemId = 1
    /\ clock = 1
    /\ recorded = <<>>
    /\ emitted = <<>>
    /\ lastCall = NoCall
    /\ calls = [p \in Procs |-> Idle]

\* a step that stays within the bounds
Within(maxItems, maxClock) ==
    nextItemId' <= maxItems + 1 /\ clock' <= maxClock + 1

\* well-formed creates, and updates that edit (name and content), move
\* (collectionId) or set nothing
CreateDtos == {d \in CreateQueryDto : ~invalidDto(d)}
EditDtos == {d \in UpdateQueryDto :
                d.collectionId = "" /\ (d.name = "") = (d.content = NoContent)}
MoveDtos == {d \in UpdateQueryDto :
                d.collectionId # "" /\ d.name = "" /\ d.content = NoContent}
UpdateDtos == EditDtos \cup MoveDtos

\* the ids a caller passes: the id of every row there is, and one id no row has
ItemIds == DOMAIN queryItem \cup {nextItemId}
RevisionIds == {r.id : r \in queryItemRevision} \cup {clock}

\* Spec: every handler, called by the owners and the team member, one call at
\* a time.
Init == plan = PlansMain /\ InitStore

Next ==
    \/ \E userId \in Users, dto \in CreateDtos :
          create(userId, dto) /\ Within(MaxItems, MaxClock)
    \/ \E userId \in Users, id \in ItemIds, dto \in UpdateDtos :
          update(userId, id, dto) /\ Within(MaxItems, MaxClock)
    \/ \E userId \in Users, id \in ItemIds : remove(userId, id)
    \/ \E userId \in Users, id \in ItemIds : findOne(userId, id)
    \/ \E userId \in Users, id \in ItemIds : listRevisions(userId, id)
    \/ \E userId \in Users, id \in RevisionIds : restoreRevision(userId, id)

Spec == Init /\ [][Next]_vars

\* SpecCreate: create with every dto, well-formed or not, and remove.
NextCreate ==
    \/ \E userId \in Users, dto \in CreateQueryDto :
          create(userId, dto) /\ Within(MaxItemsCreate, MaxItemsCreate)
    \/ \E userId \in Users, id \in ItemIds : remove(userId, id)

SpecCreate == Init /\ [][NextCreate]_vars

\* SpecSolo: u1 alone creates query items and updates them, under each
\* revision limit from 1 to 3.
InitSolo == plan \in PlansSolo /\ InitStore

NextSolo ==
    \/ \E dto \in CreateDtos :
          create("u1", dto) /\ Within(MaxItems, MaxClockSolo)
    \/ \E id \in ItemIds, dto \in UpdateDtos :
          update("u1", id, dto) /\ Within(MaxItems, MaxClockSolo)

SpecSolo == InitSolo /\ [][NextSolo]_vars

\* SpecDefaults: users whose plan config is missing or leaves fields unset
\* create query items and edit them.
InitDefaults == plan \in PlansDefaults /\ InitStore

NextDefaults ==
    \/ \E userId \in Users, dto \in CreateDtos :
          create(userId, dto) /\ Within(MaxItems, MaxClockDefaults)
    \/ \E userId \in Users, id \in ItemIds, dto \in EditDtos \ {NoDto} :
          update(userId, id, dto) /\ Within(MaxItems, MaxClockDefaults)

SpecDefaults == InitDefaults /\ [][NextDefaults]_vars

\* SpecRace: requests of u1 that call create with well-formed dtos, their
\* steps interleaved; a request calls again once its call has ended.
NextRace ==
    \/ \E p \in Procs, dto \in CreateDtos : create_count(p, "u1", dto)
    \/ \E p \in Procs :
          create_queryItemCreate(p) /\ nextItemId' <= MaxItemsRace + 1
    \/ \E p \in Procs : addQueryRevision_findOne(p)
    \/ \E p \in Procs : addQueryRevision_create(p)
    \/ \E p \in Procs : addQueryRevision_count(p)

SpecRace == Init /\ [][NextRace]_vars

\* no handler call is in flight
NoneInFlight == \A p \in Procs : calls[p].pc \in {"idle", "done"}

\* the update calls that have not inserted their revision yet
ToRecord ==
    {p \in Procs : calls[p].pc \in {"findOne", "queryItemRevision.create"}}

\* SpecBurst: u1 creates a query item and updates it, one call at a time;
\* every request calls update on it once, the steps of these calls
\* interleaved; before and after them u1 updates it one call at a time, under
\* each revision limit from 1 to 3.
NextBurst ==
    \/ \E dto \in CreateDtos :
          create("u1", dto) /\ NoneInFlight /\ DOMAIN queryItem = {}
    \/ \E id \in DOMAIN queryItem, dto \in EditDtos \ {NoDto} :
          update("u1", id, dto) /\ NoneInFlight /\ clock' <= MaxClockBurst + 1
    \/ \E p \in Procs, id \in DOMAIN queryItem, dto \in EditDtos \ {NoDto} :
          /\ update_updateMany(p, "u1", id, dto)
          /\ calls[p].pc = "idle"
          /\ clock + Cardinality(ToRecord) <= MaxClockBurst
    \/ \E p \in Procs : addQueryRevision_findOne(p)
    \/ \E p \in Procs : addQueryRevision_create(p)
    \/ \E p \in Procs : addQueryRevision_count(p)
    \/ \E p \in Procs : addQueryRevision_findFirst(p)
    \/ \E p \in Procs : addQueryRevision_delete(p)

SpecBurst == InitSolo /\ [][NextBurst]_vars

\* ------------------------------------------------------------------ claims
\* The claims speak of scope, ownership and resolved quotas; these say them in
\* terms of the tenancy and the plan configs alone.
Owns(userId, collectionId) == ownerId(workspace(collectionId)) = userId
Sees(userId, collectionId) ==
    Owns(userId, collectionId) \/ userId \in TeamMemberships(workspace(collectionId))
OwnsItem(userId, id) ==
    id \in DOMAIN queryItem /\ Owns(userId, queryItem[id].collectionId)
SeesItem(userId, id) ==
    id \in DOMAIN queryItem /\ Sees(userId, queryItem[id].collectionId)
OwnedCountIn(items, userId) ==
    Cardinality({i \in DOMAIN items : Owns(userId, items[i].collectionId)})
MaxDocumentCount(userId) ==
    IF plan[userId].config /\ plan[userId].maxQueryCount # {}
    THEN CHOOSE m \in plan[userId].maxQueryCount : TRUE ELSE 0
MaxRevisionCount(userId) ==
    IF plan[userId].config /\ plan[userId].queryRevisionLimit # {}
    THEN CHOOSE l \in plan[userId].queryRevisionLimit : TRUE ELSE 10
Malformed(dto) ==
    \/ dto.collectionId = ""
    \/ dto.name = ""
    \/ dto.content = NoContent
    \/ dto.content.query = ""
    \/ dto.content.version # 1
RevisionsOfItem(id) == {r \in queryItemRevision : r.queryItemId = id}
StoreUnchanged == UNCHANGED <<queryItem, queryItemRevision>>

\* the revision limits of the users who have recorded a revision of item id
RecorderLimits(id) ==
    IF id \in DOMAIN recorded
    THEN {MaxRevisionCount(recorded[id][k].createdById) :
            k \in 1..Len(recorded[id])}
    ELSE {}

Calls(op) == lastCall'.op = op
Caller == lastCall'.userId
Returned(result) == lastCall'.result = result

\* C2: a well-formed create into a collection the caller owns succeeds and
\* persists exactly one query item while the caller owns fewer than
\* maxDocumentCount = M items, and fails with ERR_MAX_QUERY_COUNT and persists
\* nothing once the caller owns M; so, from no items, the first M creates
\* succeed and the (M+1)-th fails.
C2_QuotaBoundary ==
    /\ [](lastCall.op = "create" /\ ~Malformed(lastCall.dto)
            /\ Owns(lastCall.userId, lastCall.dto.collectionId)
          => \/ /\ lastCall.result = "ok"
                /\ OwnedCountIn(queryItem, lastCall.userId)
                     <= MaxDocumentCount(lastCall.userId)
             \/ /\ lastCall.result = "ERR_MAX_QUERY_COUNT"
                /\ OwnedCountIn(queryItem, lastCall.userId)
                     = MaxDocumentCount(lastCall.userId))
    /\ [][(Calls("create") /\ ~Malformed(lastCall'.dto)
             /\ Owns(Caller, lastCall'.dto.collectionId))
          => IF OwnedCountIn(queryItem, Caller) < MaxDocumentCount(Caller)
             THEN /\ Returned("ok")
                  /\ lastCall'.id \notin DOMAIN queryItem
                  /\ DOMAIN queryItem' = DOMAIN queryItem \cup {lastCall'.id}
                  /\ \A i \in DOMAIN queryItem : queryItem'[i] = queryItem[i]
                  /\ Owns(Caller, queryItem'[lastCall'.id].collectionId)
                  /\ OwnedCountIn(queryItem', Caller)
                       = OwnedCountIn(queryItem, Caller) + 1
             ELSE /\ Returned("ERR_MAX_QUERY_COUNT")
                  /\ StoreUnchanged]_vars

\* C2 witness: with M = 2 the (M+1)-th create has just failed, the caller
\* owning the M items of the creates before it.
C2_Witness ==
    /\ lastCall.op = "create"
    /\ lastCall.result = "ERR_MAX_QUERY_COUNT"
    /\ ~Malformed(lastCall.dto)
    /\ Owns(lastCall.userId, lastCall.dto.collectionId)
    /\ MaxDocumentCount(lastCall.userId) = 2
    /\ OwnedCountIn(queryItem, lastCall.userId) = 2
    /\ nextItemId = 3

\* C3 as stated: create into a collection the caller does not own fails with
\* ERR_PERM_DENIED, whatever the dto, the document count and the quota.
C3_AlwaysPermDenied ==
    [][(Calls("create") /\ lastCall'.dto.collectionId \in Collections
          /\ ~Owns(Caller, lastCall'.dto.collectionId))
       => Returned("ERR_PERM_DENIED")]_vars

\* C3 amended: create into a collection the caller does not own always fails
\* and persists nothing; the error is ERR_MAX_QUERY_COUNT when the caller's
\* document count is at or over maxDocumentCount, else the validation error
\* when the dto is malformed, else ERR_PERM_DENIED.
C3_NotOwnedCreateFails ==
    [][(Calls("create") /\ lastCall'.dto.collectionId \in Collections
          /\ ~Owns(Caller, lastCall'.dto.collectionId))
       => /\ StoreUnchanged
          /\ emitted' = <<>>
          /\ lastCall'.result =
               IF OwnedCountIn(queryItem, Caller) >= MaxDocumentCount(Caller)
               THEN "ERR_MAX_QUERY_COUNT"
               ELSE IF Malformed(lastCall'.dto) THEN "BadRequestException"
               ELSE "ERR_PERM_DENIED"]_vars

\* C3 witness: a caller below quota has sent a well-formed dto naming a
\* collection of another owner's workspace and got ERR_PERM_DENIED.
C3_Witness ==
    /\ lastCall.op = "create"
    /\ lastCall.result = "ERR_PERM_DENIED"
    /\ lastCall.dto.collectionId \in Collections
    /\ ~Owns(lastCall.userId, lastCall.dto.collectionId)
    /\ ~Malformed(lastCall.dto)
    /\ OwnedCountIn(queryItem, lastCall.userId) > 0

\* C4 as stated: every successful restoreRevision records exactly one new
\* revision of the parent query item, a snapshot of the restored state.
C4_RestoreRecordsRevision ==
    [][(Calls("restoreRevision") /\ Returned("ok"))
       => \E r \in queryItemRevision' \ queryItemRevision :
             /\ r.queryItemId \in DOMAIN queryItem'
             /\ r.name = queryItem'[r.queryItemId].name
             /\ r.content = queryItem'[r.queryItemId].content
             /\ r.collectionId = queryItem'[r.queryItemId].collectionId
             /\ queryItemRevision' \ queryItemRevision = {r}]_vars

\* C5: a successful restoreRevision(U, R) sets the (name, content,
\* collectionId) of the query item R snapshots to R's values and changes no
\* other query item.
C5_RestoreSetsSnapshot ==
    [][(Calls("restoreRevision") /\ Returned("ok"))
       => \E r \in queryItemRevision :
             /\ r.id = lastCall'.id
             /\ DOMAIN queryItem' = DOMAIN queryItem
             /\ r.queryItemId \in DOMAIN queryItem
             /\ queryItem'[r.queryItemId].name = r.name
             /\ queryItem'[r.queryItemId].content = r.content
             /\ queryItem'[r.queryItemId].collectionId = r.collectionId
             /\ \A i \in DOMAIN queryItem \ {r.queryItemId} :
                   queryItem'[i] = queryItem[i]]_vars

\* C5 witness: while a second query item exists, a restore by a user other
\* than the snapshot's creator has put an item back into the snapshot's
\* collection, which the restoring user does not own.
C5_Witness ==
    /\ lastCall.op = "restoreRevision"
    /\ lastCall.result = "ok"
    /\ Cardinality(DOMAIN queryItem) = 2
    /\ \E r \in queryItemRevision :
          /\ r.id = lastCall.id
          /\ r.createdById # lastCall.userId
          /\ ~Owns(lastCall.userId, r.collectionId)
          /\ queryItem[r.queryItemId].name = r.name
          /\ queryItem[r.queryItemId].content = r.content
          /\ queryItem[r.queryItemId].collectionId = r.collectionId

\* the ids of the n entries recorded last in log
LastRecorded(log, n) == {log[k].id : k \in (Len(log) - n + 1)..Len(log)}
MinOf(a, b) == IF a <= b THEN a ELSE b
OldestOf(revs) == {r \in revs : \A o \in revs : r.createdAt <= o.createdAt}

\* the revisions of item id before and after a step that recorded revision
\* `new` of it under limit L: at most one deleted, one only when the count
\* after the insert exceeds L, and then the oldest
EvictsOldest(id, new, L) ==
    LET before == RevisionsOfItem(id)
        after == {r \in queryItemRevision' : r.queryItemId = id}
        inserted == before \cup {new}
        deleted == inserted \ after
    IN /\ new \notin before
       /\ \A o \in before : o.createdAt < new.createdAt
       /\ after \subseteq inserted
       /\ Cardinality(deleted) <= 1
       /\ (deleted # {}) = (Cardinality(inserted) > L)
       /\ deleted \subseteq OldestOf(inserted)
       /\ \A r \in queryItemRevision : r.queryItemId # id => r \in queryItemRevision'
       /\ \A r \in queryItemRevision' : r.queryItemId # id => r \in queryItemRevision

\* C6: under the single caller u1 with revision limit L >= 1, after create and
\* k updates of a query item that returned, its retained revisions are exactly
\* the min(k+1, L) recorded last; each create and each returned update
\* records one revision, deletes at most one, one only when the count after
\* the insert exceeds L, and then the one created first.
C6_OldestFirstEviction ==
    /\ [](\A id \in DOMAIN queryItem :
            /\ id \in DOMAIN recorded
            /\ {r.id : r \in RevisionsOfItem(id)} =
                 LastRecorded(recorded[id],
                              MinOf(Len(recorded[id]), MaxRevisionCount("u1"))))
    /\ [][/\ Caller = "u1"
          /\ (Calls("create") /\ Returned("ok"))
             => \E new \in queryItemRevision' :
                   /\ new.id = clock
                   /\ new.queryItemId = lastCall'.id
                   /\ recorded'[lastCall'.id] =
                        <<[id |-> new.id, createdById |-> "u1"]>>
                   /\ EvictsOldest(lastCall'.id, new, MaxRevisionCount("u1"))
          /\ (Calls("update") /\ Returned("ok"))
             => \E new \in queryItemRevision' :
                   /\ new.id = clock
                   /\ new.queryItemId = lastCall'.id
                   /\ recorded'[lastCall'.id] = Append(recorded[lastCall'.id],
                         [id |-> new.id, createdById |-> "u1"])
                   /\ EvictsOldest(lastCall'.id, new, MaxRevisionCount("u1"))
          /\ ~Returned("ok") => UNCHANGED <<queryItemRevision, recorded>>]_vars

\* C6 witness: with L = 2, after create and three updates of one query item
\* exactly the snapshots of the 2nd and the 3rd update are retained.
C6_Witness ==
    /\ MaxRevisionCount("u1") = 2
    /\ lastCall.op = "update"
    /\ \E id \in DOMAIN queryItem :
          /\ Len(recorded[id]) = 4
          /\ {r.id : r \in RevisionsOfItem(id)} =
                {recorded[id][3].id, recorded[id][4].id}

\* C7: an update by a user who is neither owner nor team member of the item's
\* workspace, and a remove by a user who is not the owner, change no query
\* item and no revision and emit no notification.
C7_OutOfScopeMutationChangesNothing ==
    [][/\ (Calls("update") /\ ~SeesItem(Caller, lastCall'.id))
          => StoreUnchanged /\ emitted' = <<>> /\ lastCall'.count = 0
       /\ (Calls("remove") /\ ~OwnsItem(Caller, lastCall'.id))
          => StoreUnchanged /\ emitted' = <<>> /\ lastCall'.count = 0]_vars

\* C7 witness: a team member has called remove on an existing query item of
\* the team's workspace, and the item and its revisions are still there.
C7_Witness ==
    /\ lastCall.op = "remove"
    /\ SeesItem(lastCall.userId, lastCall.id)
    /\ ~OwnsItem(lastCall.userId, lastCall.id)
    /\ RevisionsOfItem(lastCall.id) # {}
    /\ emitted = <<>>

\* C8: findOne(U, id) ends in the same NotFound for an id no query item has
\* and for an item outside U's owner-or-member scope; restoreRevision(U, r)
\* ends in the same NotFound for a revision that does not exist and for one
\* whose parent item is outside U's scope, and changes nothing.
C8_NotFoundHidesForbidden ==
    [][/\ (Calls("findOne") /\ ~SeesItem(Caller, lastCall'.id))
          => /\ lastCall' = Call("findOne", Caller, lastCall'.id, NoDto,
                                 "NotFoundException", 0, <<>>)
             /\ StoreUnchanged /\ emitted' = <<>>
       /\ (/\ Calls("restoreRevision")
           /\ \A r \in queryItemRevision :
                 r.id = lastCall'.id => ~SeesItem(Caller, r.queryItemId))
          => /\ lastCall' = Call("restoreRevision", Caller, lastCall'.id, NoDto,
                                 "NotFoundException", 0, <<>>)
             /\ StoreUnchanged /\ emitted' = <<>>]_vars

\* C8 witness: restoreRevision has ended in NotFound for a revision that
\* exists and whose parent item is outside the caller's scope.
C8_Witness ==
    /\ lastCall.op = "restoreRevision"
    /\ lastCall.result = "NotFoundException"
    /\ \E r \in queryItemRevision :
          /\ r.id = lastCall.id
          /\ r.queryItemId \in DOMAIN queryItem
          /\ ~SeesItem(lastCall.userId, r.queryItemId)

\* the plan provider has no plan config for the user, or one with the field
\* unset
NoMaxQueryCount(userId) ==
    ~plan[userId].config \/ plan[userId].maxQueryCount = {}
NoQueryRevisionLimit(userId) ==
    ~plan[userId].config \/ plan[userId].queryRevisionLimit = {}

\* C9: for a user without plan config or with the field unset, every create
\* (the first included) fails with ERR_MAX_QUERY_COUNT and persists nothing,
\* and a recording by that user keeps every revision up to 10 and evicts, the
\* oldest one, exactly when it brings the item to 11.
C9_QuotaDefaults ==
    [][/\ (Calls("create") /\ NoMaxQueryCount(Caller))
          => /\ Returned("ERR_MAX_QUERY_COUNT")
             /\ StoreUnchanged /\ emitted' = <<>>
       /\ (Calls("update") /\ NoQueryRevisionLimit(Caller) /\ Returned("ok"))
          => \E new \in queryItemRevision' :
                /\ new.id = clock
                /\ new.queryItemId = lastCall'.id
                /\ EvictsOldest(lastCall'.id, new, 10)
                /\ Cardinality({r \in queryItemRevision' :
                                   r.queryItemId = lastCall'.id})
                     = MinOf(Cardinality(RevisionsOfItem(lastCall'.id)) + 1, 10)]_vars

\* C9 witness: the 11th recording on an item, by a user without revision
\* limit, has evicted the first revision and left 10.
C9_Witness ==
    /\ lastCall.op = "update"
    /\ lastCall.result = "ok"
    /\ NoQueryRevisionLimit(lastCall.userId)
    /\ Len(recorded[lastCall.id]) = 11
    /\ Cardinality(RevisionsOfItem(lastCall.id)) = 10
    /\ \A r \in RevisionsOfItem(lastCall.id) : r.id # recorded[lastCall.id][1].id

\* C10 as stated: a malformed dto makes create fail with the validation
\* error, also when the caller's document count is at or over the quota.
C10_ValidationFirst ==
    [][(Calls("create") /\ Malformed(lastCall'.dto))
       => Returned("BadRequestException")]_vars

\* C10 amended: create checks the document-count quota, then the dto, then
\* the ownership of the collection: a malformed dto makes create fail and
\* persist nothing, with ERR_MAX_QUERY_COUNT when the caller's document count
\* is at or over maxDocumentCount and with the validation error otherwise,
\* whoever owns the collection.
C10_QuotaThenValidation ==
    [][(Calls("create") /\ Malformed(lastCall'.dto))
       => /\ StoreUnchanged
          /\ emitted' = <<>>
          /\ lastCall'.result =
               IF OwnedCountIn(queryItem, Caller) >= MaxDocumentCount(Caller)
               THEN "ERR_MAX_QUERY_COUNT"
               ELSE "BadRequestException"]_vars

\* C10 witness: a caller at quota has sent a malformed dto and got
\* ERR_MAX_QUERY_COUNT.
C10_Witness ==
    /\ lastCall.op = "create"
    /\ Malformed(lastCall.dto)
    /\ lastCall.result = "ERR_MAX_QUERY_COUNT"
    /\ MaxDocumentCount(lastCall.userId) > 0
    /\ OwnedCountIn(queryItem, lastCall.userId) >= MaxDocumentCount(lastCall.userId)

\* the query items a step creates, changes or deletes, or records or deletes
\* a revision of
ChangedItems ==
    {i \in DOMAIN queryItem \cup DOMAIN queryItem' :
        \/ i \notin DOMAIN queryItem
        \/ i \notin DOMAIN queryItem'
        \/ queryItem'[i] # queryItem[i]}
    \cup {r.queryItemId : r \in (queryItemRevision \ queryItemRevision')
                                 \cup (queryItemRevision' \ queryItemRevision)}

\* C11 as stated: every create, update, remove and restoreRevision call that
\* changes the store emits exactly one notification, and it carries the id of
\* the query item the call changed.
C11_NotifiesEveryMutation ==
    [][(Calls("create") \/ Calls("update") \/ Calls("remove")
          \/ Calls("restoreRevision"))
       => \A i \in ChangedItems : emitted' = <<i>>]_vars

\* the create calls of userId that have passed the checks and not yet inserted
PendingCreates(userId) ==
    {p \in Procs : /\ calls[p].op = "create"
                   /\ calls[p].userId = userId
                   /\ calls[p].pc = "queryItem.create"}
\* the create calls that have passed the checks
PastChecks ==
    {p \in Procs : /\ calls[p].op = "create"
                   /\ calls[p].pc # "idle"
                   /\ calls[p].result \notin {"ERR_MAX_QUERY_COUNT",
                                              "BadRequestException",
                                              "ERR_PERM_DENIED"}}

\* C12: when the steps of create calls interleave, every call that inserts has
\* read a document count below maxDocumentCount = M, the insert is not held
\* back by the inserts made since that read, so that the caller can come to
\* own more than M query items (M+1 with two calls that both read M-1), and
\* never more than M plus the number of concurrent requests minus one.
C12_CountRace ==
    /\ [](\A p \in PastChecks :
             calls[p].queryCount < MaxDocumentCount(calls[p].userId))
    /\ [](\A userId \in Users :
             OwnedCountIn(queryItem, userId)
                + Cardinality(PendingCreates(userId))
               <= IF MaxDocumentCount(userId) = 0 THEN 0
                  ELSE MaxDocumentCount(userId) + MaxBurst - 1)
    /\ [][\A userId \in Users :
             OwnedCountIn(queryItem', userId) # OwnedCountIn(queryItem, userId)
             => /\ OwnedCountIn(queryItem', userId)
                     = OwnedCountIn(queryItem, userId) + 1
                /\ \E p \in PendingCreates(userId) :
                      /\ calls'[p].pc = "findOne"
                      /\ calls[p].queryCount < MaxDocumentCount(userId)
                      /\ calls'[p].id \notin DOMAIN queryItem
                      /\ Owns(userId, queryItem'[calls'[p].id].collectionId)]_vars

\* C12 witness: with M = 2 and one item, two create calls of u1 have both
\* read the count M-1 = 1, both have inserted and returned, and u1 owns M+1 = 3
\* query items.
C12_Witness ==
    /\ MaxDocumentCount("u1") = 2
    /\ OwnedCountIn(queryItem, "u1") = 3
    /\ \E p, q \in Procs :
          /\ p # q
          /\ \A r \in {p, q} :
                /\ calls[r].op = "create"
                /\ calls[r].userId = "u1"
                /\ calls[r].pc = "done"
                /\ calls[r].result = "ok"
                /\ calls[r].queryCount = 1

\* the update calls on item id whose steps interleaved and that have finished
FinishedBurst(id) ==
    {p \in Procs : /\ calls[p].op = "update"
                   /\ calls[p].id = id
                   /\ calls[p].pc = "done"}
Quiescent == \A p \in Procs : calls[p].pc \in {"idle", "done"}

\* C13: for a query item that held up to maxRevisionCount = L revisions, once
\* the N update calls of a burst have finished, whatever the interleaving of
\* their insert, count, find-oldest and delete steps, the item holds at most
\* L + N - 1 revisions (and at most L when there was no burst).
C13_BurstExcessBound ==
    Quiescent =>
        \A id \in DOMAIN queryItem :
            Cardinality(RevisionsOfItem(id))
              <= IF FinishedBurst(id) = {}
                 THEN MaxRevisionCount("u1")
                 ELSE MaxRevisionCount("u1") + Cardinality(FinishedBurst(id)) - 1

\* C13 witness: all N requests have finished an update of one item, the
\* revision of each is retained, and the item holds L + N - 1 revisions: a
\* call found the same oldest revision as another and its delete found it
\* gone.
C13_Witness ==
    \E id \in DOMAIN queryItem :
        /\ FinishedBurst(id) = Procs
        /\ Cardinality(RevisionsOfItem(id))
             = MaxRevisionCount("u1") + MaxBurst - 1
        /\ \A p \in Procs : \E r \in RevisionsOfItem(id) : r.id = calls[p].res
        /\ \E p \in Procs : calls[p].result = "RecordNotFound"

\* the update calls on item id that ran alone after every call of the burst
\* had recorded its revision
LaterUpdates(id) ==
    {k \in 1..Len(recorded[id]) :
        \A p \in FinishedBurst(id) : recorded[id][k].id > calls[p].res}

\* C14 as stated, in the form a finite run refutes: a burst of N calls leaves
\* at most N - 1 revisions above maxRevisionCount = L, so, were later update
\* calls run one at a time to catch up, the item would hold at most L
\* revisions after N - 1 of them.
C14_ExcessCaughtUp ==
    \A id \in DOMAIN queryItem :
        (/\ Quiescent
         /\ FinishedBurst(id) = Procs
         /\ Cardinality(LaterUpdates(id)) >= MaxBurst - 1)
        => Cardinality(RevisionsOfItem(id)) <= MaxRevisionCount("u1")

\* C14 amended: excess revisions stay. An update call that runs alone and
\* returns inserts one revision and evicts one exactly when the item held
\* maxRevisionCount or more, so it never lowers the item's revision count: an
\* item left with more than maxRevisionCount revisions holds as many after
\* every later update run one at a time.
C14_ExcessPersists ==
    [][(Calls("update") /\ UNCHANGED calls /\ Returned("ok"))
       => LET before == Cardinality(RevisionsOfItem(lastCall'.id))
              after == Cardinality({r \in queryItemRevision' :
                                       r.queryItemId = lastCall'.id})
          IN after = IF before >= MaxRevisionCount(Caller)
                     THEN before ELSE before + 1]_vars

\* C14 witness: after a burst that left the item with more than L revisions,
\* an update call has run alone and returned, and the item still holds more
\* than L revisions.
C14_Witness ==
    /\ lastCall.op = "update"
    /\ lastCall.result = "ok"
    /\ Quiescent
    /\ FinishedBurst(lastCall.id) = Procs
    /\ LaterUpdates(lastCall.id) # {}
    /\ Cardinality(RevisionsOfItem(lastCall.id)) > MaxRevisionCount("u1")

\* C15 as stated: after any sequence of calls run one at a time, listRevisions
\* returns the revisions of the query item ordered by creation time, oldest
\* first.
C15_ListOldestFirst ==
    lastCall.op = "listRevisions" =>
        \A j, k \in 1..Len(lastCall.ret) :
            j < k => lastCall.ret[j].createdAt < lastCall.ret[k].createdAt

\* the step records exactly one new revision, a snapshot of query item id as
\* the step leaves it, created by userId
RecordsSnapshot(userId, id) ==
    \E r \in queryItemRevision' \ queryItemRevision :
        /\ queryItemRevision' \ queryItemRevision = {r}
        /\ r.queryItemId = id
        /\ r.createdById = userId
        /\ id \in DOMAIN queryItem'
        /\ r.name = queryItem'[id].name
        /\ r.content = queryItem'[id].content
        /\ r.collectionId = queryItem'[id].collectionId

\* C16 as stated: with calls run one at a time, every create that persists a
\* query item and every update that affects a row records exactly one new
\* revision of that item, whose (name, content, collectionId) are the item's
\* right after the call and whose creator is the caller, whatever the dto.
C16_PostMutationSnapshot ==
    [][/\ (Calls("create") /\ lastCall'.id \in DOMAIN queryItem' \ DOMAIN queryItem)
          => RecordsSnapshot(Caller, lastCall'.id)
       /\ (Calls("update") /\ lastCall'.count > 0)
          => RecordsSnapshot(Caller, lastCall'.id)]_vars

C18_ItemStaysInScope ==
    [][(Calls("update") \/ Calls("restoreRevision"))
       => \A i \in DOMAIN queryItem \cap DOMAIN queryItem' :
             queryItem'[i] # queryItem[i]
             => Sees(Caller, queryItem'[i].collectionId)]_vars

\* C19 as stated: with calls run one at a time and plans that do not change,
\* every user owns at most maxDocumentCount query items (items in collections
\* of workspaces the user owns), after any mix of create, update, remove and
\* restoreRevision calls by any users.
C19_DocumentCeiling ==
    \A userId \in Users :
        OwnedCountIn(queryItem, userId) <= MaxDocumentCount(userId)

\* C20: a create call run without concurrent calls that ends in an error ends
\* in the quota, the validation or the permission error, and then no query
\* item and no revision has been added, changed or removed, no id has been
\* used up and no notification has been emitted.
C20_FailedCreateChangesNothing ==
    [][(Calls("create") /\ ~Returned("ok"))
       => /\ lastCall'.result \in {"ERR_MAX_QUERY_COUNT", "BadRequestException",
                                   "ERR_PERM_DENIED"}
          /\ queryItem' = queryItem
          /\ queryItemRevision' = queryItemRevision
          /\ nextItemId' = nextItemId
          /\ emitted' = <<>>]_vars

\* C20 witness: with two query items and their revisions in the store, a
\* create of a user below quota has ended in the permission error, and the
\* items and revisions are as before.
C20_Witness ==
    /\ lastCall.op = "create"
    /\ lastCall.result = "ERR_PERM_DENIED"
    /\ Cardinality(DOMAIN queryItem) = 2
    /\ Cardinality(queryItemRevision) = 2
    /\ OwnedCountIn(queryItem, lastCall.userId) = 1
    /\ MaxDocumentCount(lastCall.userId) = 2

====
